---- MODULE Spec2Model ----
(***************************************************************************)
(* file-watcher-backup (src/src/main.rs): main() sets up its loggers (the   *)
(* file logger's setup makes the log directory and the log file),          *)
(* validates a source file, creates the destination directory, copies the  *)
(* file once, subscribes a debounced watcher (1 second) on the source and  *)
(* then loops forever on the watcher's channel, copying on every           *)
(* DebouncedEvent::Write.                                                  *)
(*                                                                         *)
(* The process is one thread (pc).  The environment is the file system     *)
(* (fs, dirs, permissions), the writers of the source file, the clock and  *)
(* the notification subsystem that feeds the channel rx.                   *)
(***************************************************************************)
EXTENDS Integers, Sequences, FiniteSets

\* ------------------------------------------------------------------ bounds

\* Writes to the source file the environment makes in one behaviour.
MaxWrites == 2
\* Events of a kind other than the write/remove pair the environment emits.
MaxOther == 1
\* Clock resolution: ticks per second.
TicksPerSecond == 2
\* Events the channel holds before the loop takes one: the watcher's threads
\* send no further event while it is full.
MaxQueue == 2
\* The counter of logged watch errors saturates here.
MaxWatchErrors == 1
\* The counter of records in the log file saturates here.
MaxLogged == 3

\* Duration::from_secs(1), the debounce delay handed to Watcher::new.
DebounceSecs == 1
Delay == DebounceSecs * TicksPerSecond

\* ------------------------------------------------------------------- paths

\* A path is a sequence of components; an absolute one starts with "/".
\* The file system main() starts in: the working directory is the user's home
\* /home, which holds docs/notes.txt and the read-only docs/frozen.txt; /tmp
\* holds secret.txt, which the user may not read; nothing can be created
\* under /ro.
Cwd == <<"/", "home">>
Home == <<"/", "home">>
Notes == <<"docs", "notes.txt">>
Frozen == <<"docs", "frozen.txt">>
Missing == <<"/", "tmp", "missing.txt">>
Secret == <<"/", "tmp", "secret.txt">>
SrcArgs == { Notes, Frozen, Missing, Secret }
DirArgs == { <<"file-watcher-backup">>, <<"docs">>, <<"/", "tmp", "backup">>,
             <<"/", "ro", "backup">> }

\* create_file_logger 141-153: $HOME/file-watcher-backup and the dated log
\* file in it (the date is fixed for a behaviour).
LogDir == Home \o <<"file-watcher-backup">>
LogFile == LogDir \o <<"today.log">>

\* The runs checked: the arguments, and what stands in the way of the log
\* file (sink): ok | nohome (home_dir() is None) | nodir (create_dir_all
\* fails) | noopen (OpenOptions::open fails).
Scenarios ==
    { [src |-> Notes,   dir |-> <<"file-watcher-backup">>,   sink |-> "ok"],
      [src |-> Notes,   dir |-> <<"docs">>,                  sink |-> "noopen"],
      [src |-> Frozen,  dir |-> <<"/", "tmp", "backup">>,    sink |-> "nohome"],
      [src |-> Missing, dir |-> <<"file-watcher-backup">>,   sink |-> "ok"],
      [src |-> Missing, dir |-> <<"/", "tmp", "backup">>,    sink |-> "noopen"],
      [src |-> Secret,  dir |-> <<"/", "tmp", "backup">>,    sink |-> "nodir"],
      [src |-> Notes,   dir |-> <<"/", "ro", "backup">>,     sink |-> "nodir"] }

\* How the OS resolves a path: a relative one against the working directory.
Resolve(p) == IF p[1] = "/" THEN p ELSE Cwd \o p

\* Path::file_name: the last component.
file_name(p) == <<p[Len(p)]>>

\* PathBuf::push of a relative component.
push(d, n) == d \o n

\* Path::parent.
parent(p) == SubSeq(p, 1, Len(p) - 1)

\* Variant: the directory joined with the whole source path.
DestinationFilePathWhole(dir, src) == push(dir, src)

\* main.rs 95-99: destination_dir_path joined with the source's base name.
DestinationFilePath(dir, src) == push(dir, file_name(src))

\* create_dir_all: the directory and all its ancestors.
Ancestors(p) == { SubSeq(p, 1, n) : n \in 1..Len(p) }

Files == { Resolve(s) : s \in SrcArgs }
           \cup { Resolve(DestinationFilePath(d, s)) : d \in DirArgs, s \in SrcArgs }
           \cup { LogFile }

\* The content of a path that holds no file.
NoFile == -1
\* The content of a file of no bytes.
Empty == -3
\* The content of a log file that holds records.
Records == -4
NoPath == <<>>

\* A file's content is the number of the write that left it (0: what the file
\* held at the start), or Empty, or Torn (below).
InitialFs ==
    [f \in Files |->
        IF f \in {Resolve(Notes), Resolve(Frozen), Resolve(Secret)} THEN 0 ELSE NoFile]
InitialDirs == { <<"/">>, <<"/", "home">>, <<"/", "home", "docs">>, <<"/", "tmp">>,
                 <<"/", "ro">> }
Readable(f) == f # Resolve(Secret)
\* The file's permission bits let its owner write it.
Writable(f) == f # Resolve(Frozen)
Creatable(d) == \A a \in Ancestors(d) : a # <<"/", "ro", "backup">>

\* ------------------------------------------------------------------- state

VARIABLES
    pc,                     \* position of main(): logging, log_init, read, create_dir,
                            \* first_copy, watch, recv, copy, exited
    exitCode,               \* none | NOINPUT | IOERR | PANIC
    src_path,               \* matches.value_of("source")
    destination_dir_path,   \* matches.value_of("destination")
    destination_file_path,  \* NoPath until computed
    loggers,                \* the loggers handed to CombinedLogger::init
    sink,                   \* what stands in the way of the log file (fixed)
    fs,                     \* file contents, by resolved path
    logged,                 \* records main() has appended to the log file
                            \* (saturating)
    dirs,                   \* existing directories, resolved
    dstWritable,            \* the destination file may be written
    raced,                  \* the source was written since main() came to the
                            \* copy it is about to make
    watching,               \* watcher.watch(src_path) is in force
    connected,              \* the channel has a live sending side
    rx,                     \* events in the channel, oldest first
    event_path,             \* the path of the Write event being copied
    operation,              \* the debouncer's pending operation for the path
    timer,                  \* ticks left until the debouncer's timer fires
    \* what main() got back from its calls
    readResult,             \* none | Ok | NotFound | Other
    mkdirResult,            \* none | Ok | Err
    watchResult,            \* none | Ok | Err
    \* history
    copies,                 \* copy() calls so far
    triggered,              \* copy() calls made by the watch loop
    failures,               \* copy() calls that returned Err
    firstCopyOk,            \* the first copy returned Ok
    lastCopyOk,             \* the latest copy returned Ok
    unchanged,              \* the latest copy returned Ok and the source was
                            \* not modified during it or since
    lastCopySame,           \* the latest copy returned Ok and was made with
                            \* the source unchanged since the copy before it
    received,               \* Write events taken from the channel
    watchErrors,            \* "Watch error" lines logged (saturating)
    writes,                 \* writes to the source so far
    others,                 \* other events emitted so far
    rawWrites,              \* raw write events the watcher has seen
    bursts,                 \* bursts of raw writes, by the clock
    burstN,                 \* raw writes in the current burst
    regular,                \* every raw write so far began a burst more than a
                            \* window after the previous write, or fell within
                            \* the window opened by its burst's first write
    sinceLast,              \* ticks since the last raw write (saturating)
    burstSpan,              \* ticks since the current burst began (saturating)
    burstEnd                \* the source's content at the last raw write

progVars == <<pc, exitCode, src_path, destination_dir_path, destination_file_path,
              loggers, event_path, readResult, mkdirResult, watchResult>>
envVars == <<fs, logged, dirs, sink, dstWritable, raced, watching, connected, rx,
             operation, timer>>
histVars == <<copies, triggered, failures, firstCopyOk, lastCopyOk,
              unchanged, lastCopySame, received,
              watchErrors, writes, others, rawWrites, bursts, burstN, regular,
              sinceLast, burstSpan, burstEnd>>
vars == <<progVars, envVars, histVars>>

Min(a, b) == IF a < b THEN a ELSE b

SrcFile == Resolve(src_path)
DstFile == Resolve(DestinationFilePath(destination_dir_path, src_path))
DstDir == Resolve(destination_dir_path)

\* ------------------------------------------------------------------- Init

Init ==
    /\ pc = "logging"
    /\ exitCode = "none"
    /\ \E run \in Scenarios :
          /\ src_path = run.src
          /\ destination_dir_path = run.dir
          /\ sink = run.sink
    /\ destination_file_path = NoPath
    /\ loggers = {}
    /\ fs = InitialFs
    /\ logged = 0
    /\ dirs = InitialDirs
    /\ dstWritable = TRUE
    /\ raced = FALSE
    /\ watching = FALSE
    /\ connected = FALSE
    /\ rx = <<>>
    /\ event_path = NoPath
    /\ operation = "None"
    /\ timer = 0
    /\ readResult = "none"
    /\ mkdirResult = "none"
    /\ watchResult = "none"
    /\ copies = 0
    /\ triggered = 0
    /\ failures = 0
    /\ firstCopyOk = FALSE
    /\ lastCopyOk = FALSE
    /\ unchanged = FALSE
    /\ lastCopySame = FALSE
    /\ received = 0
    /\ watchErrors = 0
    /\ writes = 0
    /\ others = 0
    /\ rawWrites = 0
    /\ bursts = 0
    /\ burstN = 0
    /\ regular = TRUE
    /\ sinceLast = 0
    /\ burstSpan = 0
    /\ burstEnd = NoFile

\* ------------------------------- the debouncer's view of the source file

\* The path a debounced event carries: the watched path, made absolute.
WatchedPath == Resolve(src_path)

\* A debounced event: its kind and the path it carries.
Event(kind, path) == [kind |-> kind, path |-> path]

\* The watcher sees what happens to the source file.
Live == watching /\ connected

\* The channel takes another event.
Room == Len(rx) < MaxQueue

\* A raw write reaches the debouncer: with nothing pending it sends NoticeWrite
\* and starts the timer; with a write pending it restarts the timer.
RawWrite ==
    /\ operation' = "WRITE"
    /\ timer' = Delay
    /\ rx' = IF operation = "None" THEN Append(rx, Event("NoticeWrite", WatchedPath)) ELSE rx

\* The clock's view of the raw writes: a write more than a window after the one
\* before it begins a burst; one less than a window after its burst's first
\* write joins the burst; any other is irregular.
BeginsBurst == rawWrites = 0 \/ sinceLast > Delay
JoinsBurst == ~BeginsBurst /\ burstSpan < Delay

CountRawWrite(content) ==
    /\ rawWrites' = rawWrites + 1
    /\ bursts' = IF BeginsBurst THEN bursts + 1 ELSE bursts
    /\ burstN' = IF BeginsBurst THEN 1 ELSE burstN + 1
    /\ regular' = (regular /\ (BeginsBurst \/ JoinsBurst))
    /\ sinceLast' = 0
    /\ burstSpan' = IF BeginsBurst THEN 0 ELSE burstSpan
    /\ burstEnd' = content

\* ------------------------------------------------- the OS calls main() makes

\* create_file_logger (139-161): what it returns (logger: the file logger, or
\* none) and what it leaves on disk.  create_dir_all at 147 makes the log
\* directory before the log file is opened at 157, which creates the file,
\* empty, if it is not there.
create_file_logger ==
    [logger |-> IF sink = "ok" THEN {"file"} ELSE {},
     dirs   |-> IF sink \in {"ok", "noopen"} THEN dirs \cup Ancestors(LogDir) ELSE dirs,
     fs     |-> IF sink = "ok"
                THEN [fs EXCEPT ![LogFile] = IF @ = NoFile THEN Empty ELSE @]
                ELSE fs]

\* std::fs::read(src_path), by the kind of its result.
read(p) ==
    IF fs[Resolve(p)] = NoFile THEN "NotFound"
    ELSE IF ~Readable(Resolve(p)) THEN "Other"
    ELSE "Ok"

\* std::fs::create_dir_all(p): Ok on a directory that exists already.
create_dir_all(p) ==
    IF Resolve(p) \in dirs \/ Creatable(Resolve(p)) THEN "Ok" ELSE "Err"

\* `from` and `to` name one file.
SameFile(from, to) == Resolve(from) = Resolve(to)

\* std::fs::copy(from, to) opens both files: `from` for reading, `to` for
\* writing, created if missing and truncated.
CopyOpens(from, to) ==
    /\ Resolve(from) \in DOMAIN fs
    /\ fs[Resolve(from)] # NoFile
    /\ Readable(Resolve(from))
    /\ parent(Resolve(to)) \in dirs
    /\ dstWritable

\* std::fs::copy(from, to) returns Ok: both files opened and the transfer of
\* the bytes was not cut short (cut: an I/O error or a full disk part-way).
\* With `to` the same file as `from` the file is empty once opened, there
\* is nothing to transfer and the call returns Ok(0).
CopyOk(from, to, cut) == CopyOpens(from, to) /\ (SameFile(from, to) \/ ~cut)

\* The content of a file that is no version of the source: the part of one
\* version a cut-short transfer left, or parts of two versions, read while
\* a writer was replacing one by the other.
Torn == -2

\* Variant: the copy appends to what `to` holds already.
copyAppends(from, to, cut, mixed) ==
    IF CopyOk(from, to, cut)
    THEN [fs EXCEPT ![Resolve(to)] =
              IF @ = NoFile THEN fs[Resolve(from)] ELSE @ + 1 + fs[Resolve(from)]]
    ELSE fs

\* The files after std::fs::copy(from, to), a sequence of reads and writes:
\* nothing changed when a file could not be opened; `to`, and so `from`,
\* emptied when they are one file; `to` left partly written when the
\* transfer was cut short; parts of two versions in `to` when a writer of
\* `from` got in between the reads (mixed); else the whole content of `from`.
copy(from, to, cut, mixed) ==
    IF ~CopyOpens(from, to) THEN fs
    ELSE IF SameFile(from, to) THEN [fs EXCEPT ![Resolve(to)] = Empty]
    ELSE IF cut \/ mixed THEN [fs EXCEPT ![Resolve(to)] = Torn]
    ELSE [fs EXCEPT ![Resolve(to)] = fs[Resolve(from)]]

\* std::fs::copy also gives `to` the permission bits of `from`: what `to`'s
\* bits can be after the call.  They are those of `from` when it returns Ok;
\* when the transfer was cut short they are set already or not, by the
\* version of the standard library the program is built with.
CopyMode(from, to, cut) ==
    IF ~CopyOpens(from, to) \/ SameFile(from, to) THEN {dstWritable}
    ELSE IF cut THEN {dstWritable, Writable(Resolve(from))}
    ELSE {Writable(Resolve(from))}

\* A copy onto the watched file (which it empties, when it reads that file
\* itself) is a modification of it, which a live watcher reports as a raw
\* write that left `content`.  (Bound: the raw writes of one run are followed
\* up to MaxWrites, and a notice only while the channel has room.)
NotifyTruncation(from, to, content) ==
    IF /\ Resolve(to) = WatchedPath /\ CopyOpens(from, to) /\ Live
       /\ rawWrites < MaxWrites
       /\ operation = "None" => Room
    THEN RawWrite /\ CountRawWrite(content)
    ELSE UNCHANGED <<operation, timer, rx, rawWrites, bursts, burstN, regular,
                     sinceLast, burstSpan, burstEnd>>

\* ------------------------------------------------------- what main() logs

\* 53-57: the file logger is among the loggers CombinedLogger::init installs
\* exactly when create_file_logger returned it; it records every level.
FileLogging == sink = "ok"

\* The log macros append n records to the log file, which the file logger
\* holds open, after the step has left the files as `files`.
Log(files, n) ==
    /\ fs' = IF FileLogging /\ n > 0 THEN [files EXCEPT ![LogFile] = Records]
             ELSE files
    /\ logged' = IF FileLogging THEN Min(logged + n, MaxLogged) ELSE logged

\* 61, 69-70, 74-75, 81: the input path, then "validated", or the error and
\* its trace.
ReadLogs(kind) == IF kind = "Ok" THEN 2 ELSE 3

\* 84, 88-89, 93: the directory, then "setup completed", or the error twice.
MkdirLogs(res) == IF res = "Ok" THEN 2 ELSE 3

\* 102, 104, 106-107 and 124, 126-127: "Initial copy" before the first copy;
\* "Copied n bytes", or the error twice.
CopyLogs(first, ok) == (IF first THEN 1 ELSE 0) + (IF ok THEN 1 ELSE 2)

\* 115: "Error adding path to watcher".
WatchLogs(res) == IF res = "Err" THEN 1 ELSE 0

\* 134: "Watch error".
RecvErrorLogs == 1

\* ------------------------------------------------------ decisions of main()

\* 47-50: TermLogger::new(..).unwrap() panics when stdout is a terminal and
\* the terminal logger cannot be made.
TermExit(tty, termOk) == IF tty /\ ~termOk THEN "PANIC" ELSE "none"

\* 52-57: a missing file logger is left out of the loggers; nothing exits.
LoggerExit(file_logger) == "none"

\* Variant: every read error exits alike.
ReadExitOneStatus(kind) == IF kind = "Ok" THEN "none" ELSE "IOERR"

\* 65-79: the exit status for the result of read(src_path).
ReadExit(kind) ==
    CASE kind = "Ok" -> "none"
      [] kind = "NotFound" -> "NOINPUT"
      [] OTHER -> "IOERR"

\* Variant: a create_dir_all error is logged and main() goes on.
MkdirExitNever(res) == "none"

\* 87-91: the exit status for the result of create_dir_all.
MkdirExit(res) == IF res = "Err" THEN "IOERR" ELSE "none"

\* 113-116: a watch() error is logged; nothing exits.
WatchExit(res) == "none"

\* Variants: the loop copies on the notice, on the notice too, or on every
\* event of the file.
TriggersCopyOnNotice(event) == event.kind = "NoticeWrite"
TriggersCopyOnBoth(event) == event.kind \in {"Write", "NoticeWrite"}
TriggersCopyOnAny(event) == event.kind \notin {"Error", "Rescan"}

\* Variant: the loop also copies when the file is reported removed.
TriggersCopyOnRemove(event) == event.kind \in {"Write", "Remove"}

\* 121-132: the event kinds that make the loop copy.
TriggersCopy(event) == event.kind = "Write"

\* 122-123: the `from` of a triggered copy is the path the Write event carries.
CopyFrom(path) == path

\* Variant: a failed first copy ends the process.
AfterFirstCopyStops(ok) == IF ok THEN "watch" ELSE "exited"

\* 103-109: where main() goes after the first copy returned.
AfterFirstCopy(ok) == "watch"

\* Variant: a failed copy is tried again.
AfterCopyRetries(ok) == IF ok THEN "recv" ELSE "copy"

\* Variant: a failed copy ends the loop.
AfterCopyStops(ok) == IF ok THEN "recv" ELSE "exited"

\* 123-129: where the loop goes after a triggered copy returned.
AfterCopy(ok) == "recv"

\* Variant: the loop takes the next event while a copy is still running.
LoopReceivesWhileCopying == pc \in {"recv", "copy"}

\* 118-119: rx.recv() is called at the top of the loop, by the one thread
\* there is, after the previous iteration's match has returned.
LoopReceives == pc = "recv"

\* Variant: a receive error ends the loop.
AfterRecvErrorStops == "exited"

\* 134: where the loop goes after rx.recv() returned Err.
AfterRecvError == "recv"

Exit(code) ==
    /\ pc' = "exited"
    /\ exitCode' = code

\* One copy() call by main(), with what is logged around it and its
\* bookkeeping.
DoCopy(from, to, first) ==
    \E cut \in BOOLEAN, mixed \in BOOLEAN :
      /\ mixed => (raced /\ ~cut /\ Resolve(from) = SrcFile)
      /\ Log(copy(from, to, cut, mixed), CopyLogs(first, CopyOk(from, to, cut)))
      /\ dstWritable' \in CopyMode(from, to, cut)
      /\ NotifyTruncation(from, to, copy(from, to, cut, mixed)[Resolve(to)])
      /\ raced' = FALSE
      /\ copies' = copies + 1
      /\ triggered' = IF first THEN triggered ELSE triggered + 1
      /\ failures' = IF CopyOk(from, to, cut) THEN failures ELSE failures + 1
      /\ firstCopyOk' = IF first THEN CopyOk(from, to, cut) ELSE firstCopyOk
      /\ lastCopyOk' = CopyOk(from, to, cut)
      /\ unchanged' = (CopyOk(from, to, cut) /\ ~raced /\ Resolve(from) = SrcFile)
      /\ lastCopySame' = (CopyOk(from, to, cut) /\ unchanged /\ ~raced)

\* ----------------------------------------------------------------- startup

\* 44-55: the terminal logger when stdout is a terminal, and the file logger
\* when it could be made.
SetupLoggers ==
    /\ pc = "logging"
    /\ \E tty \in BOOLEAN, termOk \in BOOLEAN :
         IF TermExit(tty, termOk) # "none"
         THEN /\ Exit(TermExit(tty, termOk))
              /\ UNCHANGED <<loggers, fs, dirs>>
         ELSE LET made == create_file_logger IN
                /\ loggers' = (IF tty THEN {"term"} ELSE {}) \cup made.logger
                /\ fs' = made.fs
                /\ dirs' = made.dirs
                /\ IF LoggerExit(made.logger) = "none"
                   THEN pc' = "log_init" /\ UNCHANGED exitCode
                   ELSE Exit(LoggerExit(made.logger))
    /\ UNCHANGED <<src_path, destination_dir_path, destination_file_path,
                   event_path, readResult, mkdirResult, watchResult>>
    /\ UNCHANGED <<logged, sink, dstWritable, raced, watching, connected, rx,
                   operation, timer>>
    /\ UNCHANGED histVars

\* 57: CombinedLogger::init(loggers) takes the vector (it is moved) and
\* installs it as the process's logger.
InitLogging ==
    /\ pc = "log_init"
    /\ loggers' = {}
    /\ pc' = "read"
    /\ UNCHANGED <<exitCode, src_path, destination_dir_path, destination_file_path,
                   event_path, readResult, mkdirResult, watchResult>>
    /\ UNCHANGED <<envVars, histVars>>

\* 59-81: read(src_path); exit on an error.  Every arm logs.
ValidateSource ==
    /\ pc = "read"
    /\ readResult' = read(src_path)
    /\ IF ReadExit(read(src_path)) = "none"
       THEN pc' = "create_dir" /\ UNCHANGED exitCode
       ELSE Exit(ReadExit(read(src_path)))
    /\ Log(fs, ReadLogs(read(src_path)))
    /\ UNCHANGED <<src_path, destination_dir_path, destination_file_path, loggers,
                   event_path, mkdirResult, watchResult>>
    /\ UNCHANGED <<dirs, sink, dstWritable, raced, watching, connected, rx,
                   operation, timer>>
    /\ UNCHANGED histVars

\* 83-93: create_dir_all(destination_dir_path); exit on an error.
CreateDestinationDir ==
    /\ pc = "create_dir"
    /\ LET res == create_dir_all(destination_dir_path) IN
         /\ mkdirResult' = res
         /\ dirs' = IF res = "Ok" THEN dirs \cup Ancestors(DstDir) ELSE dirs
         /\ IF MkdirExit(res) = "none"
            THEN pc' = "first_copy" /\ UNCHANGED exitCode
            ELSE Exit(MkdirExit(res))
         /\ Log(fs, MkdirLogs(res))
    /\ UNCHANGED <<src_path, destination_dir_path, destination_file_path, loggers,
                   event_path, readResult, watchResult>>
    /\ UNCHANGED <<sink, dstWritable, raced, watching, connected, rx,
                   operation, timer>>
    /\ UNCHANGED <<copies, triggered, failures, firstCopyOk, lastCopyOk, unchanged, lastCopySame, received,
                   watchErrors, writes, others, rawWrites, bursts, burstN, regular,
                   sinceLast, burstSpan, burstEnd>>

\* 95-109: compute destination_file_path, then the first copy; an error is
\* logged and main() goes on.
FirstCopy ==
    /\ pc = "first_copy"
    /\ destination_file_path' = DestinationFilePath(destination_dir_path, src_path)
    /\ DoCopy(src_path, destination_file_path', TRUE)
    /\ pc' = AfterFirstCopy(lastCopyOk')
    /\ exitCode' = IF pc' = "exited" THEN "IOERR" ELSE exitCode
    /\ UNCHANGED <<src_path, destination_dir_path, loggers, event_path,
                   readResult, mkdirResult, watchResult>>
    /\ UNCHANGED <<dirs, sink, watching, connected>>
    /\ UNCHANGED <<received, watchErrors, writes, others>>

\* 111-116: channel(), Watcher::new(tx, 1 s).unwrap(), watcher.watch(src_path).
\* Watcher::new failing panics in unwrap(); watch() failing is logged.  watch()
\* fails on a path that holds no file, or when the OS rejects the watch.
Subscribe ==
    /\ pc = "watch"
    /\ \E newOk \in BOOLEAN, accepted \in BOOLEAN :
         IF ~newOk
         THEN /\ Exit("PANIC")
              /\ UNCHANGED <<watchResult, watching, connected, fs, logged>>
         ELSE LET res == IF fs[SrcFile] # NoFile /\ accepted THEN "Ok" ELSE "Err" IN
                /\ watchResult' = res
                /\ connected' = TRUE
                /\ watching' = (res = "Ok")
                /\ Log(fs, WatchLogs(res))
                /\ IF WatchExit(res) = "none"
                   THEN pc' = "recv" /\ UNCHANGED exitCode
                   ELSE Exit(WatchExit(res))
    /\ UNCHANGED <<src_path, destination_dir_path, destination_file_path, loggers,
                   event_path, readResult, mkdirResult>>
    /\ UNCHANGED <<dirs, sink, dstWritable, raced, rx, operation, timer>>
    /\ UNCHANGED histVars

\* ---------------------------------------------------------- the watch loop

\* 119-132, Ok(event): take the oldest event; a Write starts a copy of the
\* event's path, any other kind is dropped (continue).
Recv ==
    /\ LoopReceives
    /\ rx # <<>>
    /\ rx' = Tail(rx)
    /\ IF TriggersCopy(Head(rx))
       THEN pc' = "copy" /\ event_path' = Head(rx).path
       ELSE pc' = "recv" /\ UNCHANGED event_path
    /\ received' = IF Head(rx).kind = "Write" THEN received + 1 ELSE received
    /\ UNCHANGED <<exitCode, src_path, destination_dir_path, destination_file_path,
                   loggers, readResult, mkdirResult, watchResult>>
    /\ UNCHANGED <<fs, logged, dirs, sink, dstWritable, raced, watching, connected,
                   operation, timer>>
    /\ UNCHANGED <<copies, triggered, failures, firstCopyOk, lastCopyOk, unchanged, lastCopySame,
                   watchErrors, writes, others, rawWrites, bursts, burstN,
                   regular, sinceLast, burstSpan, burstEnd>>

\* 123-129: copy(path, destination_file_path); an error is logged; back to recv.
TriggeredCopy ==
    /\ pc = "copy"
    /\ DoCopy(CopyFrom(event_path), destination_file_path, FALSE)
    /\ pc' = AfterCopy(lastCopyOk')
    /\ event_path' = IF pc' = "copy" THEN event_path ELSE NoPath
    /\ exitCode' = IF pc' = "exited" THEN "IOERR" ELSE exitCode
    /\ UNCHANGED <<src_path, destination_dir_path, destination_file_path, loggers,
                   readResult, mkdirResult, watchResult>>
    /\ UNCHANGED <<dirs, sink, watching, connected>>
    /\ UNCHANGED <<received, watchErrors, writes, others>>

\* 134, Err(e): recv() fails when the channel is empty and has no sender left;
\* the error is logged and the loop goes round.
RecvError ==
    /\ pc = "recv"
    /\ rx = <<>>
    /\ ~connected
    /\ watchErrors' = Min(watchErrors + 1, MaxWatchErrors)
    /\ pc' = AfterRecvError
    /\ exitCode' = IF pc' = "exited" THEN "IOERR" ELSE exitCode
    /\ Log(fs, RecvErrorLogs)
    /\ UNCHANGED <<src_path, destination_dir_path, destination_file_path, loggers,
                   event_path, readResult, mkdirResult, watchResult>>
    /\ UNCHANGED <<dirs, sink, dstWritable, raced, watching, connected, rx,
                   operation, timer>>
    /\ UNCHANGED <<copies, triggered, failures, firstCopyOk, lastCopyOk, unchanged, lastCopySame, received,
                   writes, others, rawWrites, bursts, burstN, regular, sinceLast,
                   burstSpan, burstEnd>>

\* ------------------------------------------- the debounced watcher (notify)

\* Some process writes the source file; each write leaves new content.  A
\* write made while main() is at a copy may fall within the copy.
WriteSource ==
    /\ pc # "exited"
    /\ writes < MaxWrites
    /\ fs[SrcFile] # NoFile
    /\ writes' = writes + 1
    /\ fs' = [fs EXCEPT ![SrcFile] = writes + 1]
    /\ Live /\ operation = "None" => Room
    /\ IF Live
       THEN RawWrite /\ CountRawWrite(writes + 1)
       ELSE UNCHANGED <<operation, timer, rx, rawWrites, bursts, burstN, regular,
                        sinceLast, burstSpan, burstEnd>>
    /\ raced' = (pc \in {"first_copy", "copy"})
    /\ unchanged' = FALSE
    /\ UNCHANGED progVars
    /\ UNCHANGED <<logged, dirs, sink, dstWritable, watching, connected>>
    /\ UNCHANGED <<copies, triggered, failures, firstCopyOk, lastCopyOk,
                   lastCopySame, received, watchErrors, others>>

\* Some process removes the source file.  A live debouncer sends NoticeRemove,
\* replaces a pending write by the removal and restarts the timer.
RemoveSource ==
    /\ pc # "exited"
    /\ fs[SrcFile] # NoFile
    /\ fs' = [fs EXCEPT ![SrcFile] = NoFile]
    /\ Live => Room
    /\ IF Live
       THEN /\ operation' = "REMOVE"
            /\ timer' = Delay
            /\ rx' = Append(rx, Event("NoticeRemove", WatchedPath))
       ELSE UNCHANGED <<operation, timer, rx>>
    /\ unchanged' = FALSE
    /\ UNCHANGED progVars
    /\ UNCHANGED <<logged, dirs, sink, dstWritable, raced, watching, connected>>
    /\ UNCHANGED <<copies, triggered, failures, firstCopyOk, lastCopyOk,
                   lastCopySame, received, watchErrors, writes, others, rawWrites,
                   bursts, burstN, regular, sinceLast, burstSpan, burstEnd>>

\* The debouncer's timer fires: the pending operation goes out as an event.
TimerFire ==
    /\ operation # "None"
    /\ timer = 0
    /\ Room
    /\ rx' = Append(rx, Event(IF operation = "WRITE" THEN "Write" ELSE "Remove",
                                WatchedPath))
    /\ operation' = "None"
    /\ UNCHANGED progVars
    /\ UNCHANGED <<fs, logged, dirs, sink, dstWritable, raced, watching, connected, timer>>
    /\ UNCHANGED histVars

\* Time passes; a timer that is due fires before the next tick.
Tick ==
    /\ pc # "exited"
    /\ operation = "None" \/ timer > 0
    /\ timer' = IF operation # "None" THEN timer - 1 ELSE timer
    /\ sinceLast' = IF rawWrites > 0 THEN Min(sinceLast + 1, Delay + 1) ELSE sinceLast
    /\ burstSpan' = IF rawWrites > 0 THEN Min(burstSpan + 1, Delay) ELSE burstSpan
    /\ UNCHANGED progVars
    /\ UNCHANGED <<fs, logged, dirs, sink, dstWritable, raced, watching, connected, rx,
                   operation>>
    /\ UNCHANGED <<copies, triggered, failures, firstCopyOk, lastCopyOk, unchanged, lastCopySame, received,
                   watchErrors, writes, others, rawWrites, bursts, burstN, regular,
                   burstEnd>>

\* Event kinds of notify::DebouncedEvent the loop may also receive.  Create,
\* Chmod and Rescan fall to the same match arm as Rename and are left out.
OtherKinds == {"Rename", "Error"}

\* The watcher sends an event of another kind.
EmitOther ==
    /\ Live
    /\ Room
    /\ others < MaxOther
    /\ \E kind \in OtherKinds : rx' = Append(rx, Event(kind, WatchedPath))
    /\ others' = others + 1
    /\ UNCHANGED progVars
    /\ UNCHANGED <<fs, logged, dirs, sink, dstWritable, raced, watching, connected,
                   operation, timer>>
    /\ UNCHANGED <<copies, triggered, failures, firstCopyOk, lastCopyOk, unchanged, lastCopySame, received,
                   watchErrors, writes, rawWrites, bursts, burstN, regular,
                   sinceLast, burstSpan, burstEnd>>

\* The files a Write event can name besides the watched one.
ForeignPaths == { Resolve(Notes), Resolve(Frozen) } \ { WatchedPath }

\* A Write event that carries the path of another file than the watched one
\* reaches the channel.  (The watcher of spec 4.3, subscribed to the one
\* source path, sends no such event: the step belongs to AnyPathSpec only,
\* which takes the channel to deliver whatever a sender puts into it.)
SendForeignWrite ==
    /\ pc \in {"recv", "copy"}
    /\ connected
    /\ Room
    /\ others < MaxOther
    /\ \E path \in ForeignPaths : rx' = Append(rx, Event("Write", path))
    /\ others' = others + 1
    /\ UNCHANGED progVars
    /\ UNCHANGED <<fs, logged, dirs, sink, dstWritable, raced, watching, connected,
                   operation, timer>>
    /\ UNCHANGED <<copies, triggered, failures, firstCopyOk, lastCopyOk, unchanged, lastCopySame, received,
                   watchErrors, writes, rawWrites, bursts, burstN, regular,
                   sinceLast, burstSpan, burstEnd>>

\* The sending side of the channel goes away (the watcher's threads end): what
\* the debouncer had pending is lost, what is in the channel stays.
Disconnect ==
    /\ pc \in {"recv", "copy"}
    /\ connected
    /\ connected' = FALSE
    /\ watching' = FALSE
    /\ operation' = "None"
    /\ timer' = 0
    /\ UNCHANGED progVars
    /\ UNCHANGED <<fs, logged, dirs, sink, dstWritable, raced, rx>>
    /\ UNCHANGED histVars

\* The destination file becomes read-only, or writable again.
ToggleWritable ==
    /\ pc # "exited"
    /\ fs[DstFile] # NoFile
    /\ dstWritable' = ~dstWritable
    /\ UNCHANGED progVars
    /\ UNCHANGED <<fs, logged, dirs, sink, raced, watching, connected, rx, operation, timer>>
    /\ UNCHANGED histVars

\* ------------------------------------------------------------ specification

Main ==
    \/ SetupLoggers
    \/ InitLogging
    \/ ValidateSource
    \/ CreateDestinationDir
    \/ FirstCopy
    \/ Subscribe
    \/ Recv
    \/ TriggeredCopy
    \/ RecvError

Environment ==
    \/ WriteSource
    \/ RemoveSource
    \/ TimerFire
    \/ Tick
    \/ EmitOther
    \/ Disconnect
    \/ ToggleWritable

Next == Main \/ Environment

Spec == Init /\ [][Next]_vars

\* The program with a channel whose Write events may carry any file's path.
NextAnyPath == Next \/ SendForeignWrite

AnyPathSpec == Init /\ [][NextAnyPath]_vars

\* The scheduler runs main()'s thread, the debouncer's timer thread fires a
\* timer that is due, and time passes.
FairSpec == Spec /\ WF_vars(Main) /\ WF_vars(TimerFire) /\ WF_vars(Tick)

\* ------------------------------------------------------------------ claims

InLoop == pc \in {"recv", "copy"}

\* The loop waits on an empty channel and the debouncer has nothing pending.
Quiescent == pc = "recv" /\ rx = <<>> /\ operation = "None"

\* C1: when startup is complete and the loop begins to wait, the destination
\* file holds the source's content of that moment, also when a write to the
\* source lands between the first copy and the subscription.  Stated for a
\* source that is still there, a first copy that succeeded and a subscription
\* that was accepted.
C1_InitialSync ==
    [][pc = "watch" /\ pc' = "recv" /\ firstCopyOk /\ watching'
         /\ fs'[SrcFile] # NoFile
         => fs'[DstFile] = fs'[SrcFile]]_vars

\* C2: once the watcher has seen a write that left content v in the source, the
\* destination comes to hold v, unless the source changes again, the channel
\* loses its sender, or a copy triggered after that moment fails.
C2_EventualMirroring ==
    \A v \in 1..MaxWrites, n \in 0..MaxWrites :
        [](Live /\ operation = "WRITE" /\ fs[SrcFile] = v /\ triggered = n
             => <>(\/ fs[DstFile] = v
                   \/ fs[SrcFile] # v
                   \/ ~connected
                   \/ triggered > n /\ ~lastCopyOk))

\* C2 witness: the destination holds content written after the subscription,
\* put there by a triggered copy.
C2_Witness ==
    /\ InLoop /\ Live /\ DstFile # SrcFile
    /\ triggered >= 1 /\ lastCopyOk
    /\ fs[SrcFile] >= 1 /\ fs[DstFile] = fs[SrcFile] /\ burstEnd = fs[SrcFile]

\* C3: a triggered copy that fails leaves the loop waiting; after a failure the
\* next Write event received still starts a copy; a triggered copy that
\* succeeds has written the destination and leaves the loop waiting: the
\* destination holds the source's content when it is another file than the
\* source and the source was not written while the copy ran.
C3_FailedCopyKeepsLoop ==
    [][/\ pc = "copy" /\ copies' = copies + 1 /\ ~lastCopyOk'
            => pc' = "recv" /\ exitCode' = "none"
       /\ pc = "recv" /\ failures > 0 /\ rx # <<>> /\ rx' = Tail(rx)
            /\ Head(rx).kind = "Write"
            => pc' = "copy"
       /\ pc = "copy" /\ copies' = copies + 1 /\ lastCopyOk'
            => /\ pc' = "recv"
               /\ fs'[DstFile] \in {fs[SrcFile], Torn, Empty}
               /\ DstFile # SrcFile /\ ~raced => fs'[DstFile] = fs[SrcFile]]_vars

\* C3 witness: a triggered copy failed, and a later one succeeded and brought
\* the destination, another file than the source, up to date.
C3_Witness ==
    /\ pc = "recv" /\ DstFile # SrcFile
    /\ triggered >= 2 /\ firstCopyOk /\ failures >= 1 /\ lastCopyOk
    /\ fs[DstFile] = fs[SrcFile] /\ fs[SrcFile] = writes

\* C4: once in the loop, main() stays in the loop and never exits, whatever it
\* receives, however its copies end and when recv() fails.
C4_LoopNeverExits ==
    [][InLoop => pc' \in {"recv", "copy"} /\ exitCode' = "none"]_vars

\* C4 witness: the loop waits again after a receive error and a failed copy.
C4_Witness ==
    /\ pc = "recv" /\ exitCode = "none"
    /\ watchErrors >= 1 /\ firstCopyOk /\ failures >= 1 /\ triggered >= 1

\* C5 as stated: a source that is not found at startup ends the process with
\* NOINPUT, and the process has then neither created the destination
\* directory, nor made a copy, nor subscribed to a watch.
C5_MissingSource ==
    readResult = "NotFound"
        => /\ pc = "exited" /\ exitCode = "NOINPUT"
           /\ DstDir \in dirs => DstDir \in InitialDirs
           /\ copies = 0
           /\ watchResult = "none" /\ ~watching /\ ~connected

\* C5 as amended: a source that is not found at startup ends the process with
\* NOINPUT, with create_dir_all(destination_dir_path) not called, no copy made
\* and no watch subscribed; what the process has created by then is what the
\* file logger's setup creates: the log directory, unless home_dir() or
\* create_dir_all stood in its way, and the log file in it when it could be
\* opened, which then holds the three records logged about the source.  The
\* destination directory exists then only when it existed before or is the
\* log directory.
C5_MissingSourceLogOnly ==
    /\ src_path = Missing /\ pc \notin {"logging", "log_init", "read"}
         => readResult = "NotFound" \/ exitCode = "PANIC"
    /\ readResult = "NotFound"
         => /\ pc = "exited" /\ exitCode = "NOINPUT"
            /\ mkdirResult = "none"
            /\ copies = 0
            /\ watchResult = "none" /\ ~watching /\ ~connected
            /\ dirs = IF sink \in {"ok", "noopen"}
                      THEN InitialDirs \cup Ancestors(LogDir) ELSE InitialDirs
            /\ \A f \in Files \ {SrcFile, LogFile} : fs[f] = InitialFs[f]
            /\ fs[LogFile] = IF sink = "ok" THEN Records ELSE NoFile
            /\ logged = IF sink = "ok" THEN 3 ELSE 0
            /\ DstDir \in dirs => DstDir \in InitialDirs \/ DstDir = LogDir

\* C5 witness: the process has exited on the missing source, and the
\* destination directory, which is the log directory, has been created.
C5_Witness ==
    /\ src_path = Missing /\ readResult = "NotFound"
    /\ pc = "exited" /\ exitCode = "NOINPUT"
    /\ DstDir = LogDir /\ DstDir \in dirs /\ DstDir \notin InitialDirs
    /\ fs[LogFile] = Records

\* C6: a read error other than not-found, and a create_dir_all error, end the
\* process with IOERR before any copy and before the loop; a destination
\* directory that exists already is no error.
C6_IoErrors ==
    /\ readResult = "Other"
         => /\ pc = "exited" /\ exitCode = "IOERR"
            /\ mkdirResult = "none" /\ copies = 0 /\ watchResult = "none"
    /\ mkdirResult = "Err"
         => /\ pc = "exited" /\ exitCode = "IOERR"
            /\ copies = 0 /\ watchResult = "none"
            /\ \A f \in Files \ {SrcFile, LogFile} : fs[f] = InitialFs[f]
    /\ mkdirResult # "none"
         /\ (DstDir \in InitialDirs \/ (DstDir = LogDir /\ sink \in {"ok", "noopen"}))
         => mkdirResult = "Ok" /\ exitCode # "IOERR"

\* C6 witness: the process has exited on a directory it could not create.
C6_Witness ==
    /\ src_path = Notes /\ readResult = "Ok"
    /\ mkdirResult = "Err" /\ pc = "exited" /\ exitCode = "IOERR"

\* C6, second case reached: an unreadable source.
C6_WitnessUnreadable == readResult = "Other" /\ exitCode = "IOERR"

\* C6, third case reached: the loop runs with a directory that existed when
\* create_dir_all was called, made by the file logger's setup.
C6_WitnessExisting ==
    /\ DstDir = LogDir /\ DstDir \notin InitialDirs /\ mkdirResult = "Ok"
    /\ pc = "recv" /\ lastCopyOk

\* C7: a watch subscription that cannot be established ends the process
\* before the loop.
C7_SubscriptionFatal == watchResult = "Err" => pc = "exited"

\* C8: a log file that cannot be made ends the process with IOERR before the
\* source is validated.  (A step that ends in the terminal logger's panic,
\* taken before the log file is tried, is left aside.)
C8_LogSinkFatal ==
    [][pc = "logging" /\ pc' # "logging" /\ sink # "ok" /\ exitCode' # "PANIC"
         => pc' = "exited" /\ exitCode' = "IOERR"]_vars

\* The premises C9 and C10 share: the watcher has been live for every write it
\* counted, the source is still there, and the writes are regular by the clock.
Delivering == connected /\ watching /\ regular /\ fs[SrcFile] # NoFile

\* C9 as stated: when the loop has dealt with a burst of two or more raw
\* writes that all fell within one debounce window, it has made exactly one
\* copy per burst and the destination holds the source's content of the end
\* of the burst.
C9_BurstMirrored ==
    Quiescent /\ Delivering /\ burstN >= 2
        => /\ triggered = bursts
           /\ fs[DstFile] = burstEnd

\* C9 as amended: when the loop has dealt with such a burst, it has made
\* exactly one copy per burst, and if that copy succeeded the destination
\* holds the source's content of the end of the burst, or no bytes when it is
\* the source file itself.
C9_BurstOneCopy ==
    Quiescent /\ Delivering /\ burstN >= 2
        => /\ triggered = bursts
           /\ lastCopyOk
                => fs[DstFile] = IF DstFile = SrcFile THEN Empty ELSE burstEnd

\* C9 witness: a burst of two writes within the window has been dealt with.
C9_Witness ==
    /\ Quiescent /\ Delivering /\ burstN >= 2 /\ DstFile # SrcFile
    /\ triggered = bursts /\ lastCopyOk /\ fs[DstFile] = burstEnd
    /\ burstEnd = writes

\* C10: when the loop has dealt with raw writes that were each more than one
\* debounce window after the one before, it has made as many triggered copies
\* as there were writes.
C10_SpacedWrites ==
    Quiescent /\ Delivering /\ bursts = rawWrites
        => triggered = rawWrites

\* C10 witness: two writes more than a window apart, two triggered copies.
C10_Witness ==
    /\ Quiescent /\ Delivering
    /\ rawWrites >= 2 /\ bursts = rawWrites /\ triggered = rawWrites

\* C11: receiving an event of any kind other than Write makes no copy, leaves
\* every file as it was, the log file included, and leaves the loop waiting
\* for the next event.
C11_OnlyWriteCopies ==
    [][pc = "recv" /\ rx # <<>> /\ rx' = Tail(rx) /\ Head(rx).kind # "Write"
        => /\ pc' = "recv"
           /\ copies' = copies /\ triggered' = triggered
           /\ fs' = fs /\ logged' = logged]_vars

\* C11 witness: the watched file was removed, the loop has received the
\* notice and the Remove event, made no copy for them and waits; the backup
\* holds what the first copy put there.
C11_Witness ==
    /\ Quiescent /\ Live
    /\ fs[SrcFile] = NoFile
    /\ firstCopyOk /\ triggered = 0 /\ copies = 1
    /\ fs[DstFile] # NoFile

\* C12: whether the first copy succeeds or fails, main() goes on to subscribe
\* the watcher without exiting, and from there enters the watch loop whatever
\* the first copy returned (only Watcher::new failing, a panic, prevents it).
C12_FirstCopyNotFatal ==
    [][/\ pc = "first_copy" /\ copies' = copies + 1
          => pc' = "watch" /\ exitCode' = "none"
       /\ pc = "watch" /\ pc' # pc
          => pc' = "recv" \/ exitCode' = "PANIC"]_vars

\* C12 witness: the first copy failed, the loop was entered, and a later
\* Write event brought the destination up to date with the source.
C12_Witness ==
    /\ InLoop /\ ~firstCopyOk /\ copies >= 2 /\ DstFile # SrcFile
    /\ triggered >= 1 /\ lastCopyOk
    /\ writes >= 1 /\ fs[DstFile] = fs[SrcFile] /\ fs[DstFile] = writes

\* C13: when the latest copy succeeded and the source has not been modified
\* while it ran or since, the destination holds the source's content (no
\* bytes, when it is the source itself), and a further copy that succeeds is
\* a copy made and counted that leaves the destination's content, and every
\* other file's but the log file's, exactly as it was.
C13_CopyIdempotent ==
    [][(pc = "copy" /\ copies' = copies + 1 /\ lastCopyOk' /\ unchanged)
        => /\ triggered' = triggered + 1
           /\ fs[DstFile] = IF DstFile = SrcFile THEN Empty ELSE fs[SrcFile]
           /\ fs'[DstFile] = fs[DstFile]
           /\ \A f \in Files \ {LogFile} : fs'[f] = fs[f]]_vars

\* C13 witness: the latest copy was a triggered one that succeeded with the
\* source unmodified since the successful copy before it, and the destination,
\* another file than the source, holds the source's content.
C13_Witness ==
    /\ pc = "recv" /\ triggered >= 1 /\ lastCopyOk
    /\ lastCopySame
    /\ DstFile # SrcFile /\ fs[DstFile] = fs[SrcFile]

\* C14: an event is taken from the channel only while the loop waits with no
\* copy pending; at most one Write event taken from the channel is without its
\* finished copy attempt, and exactly while a copy is in progress; the loop
\* leaves a copy in progress only by that copy attempt having returned, Ok or
\* Err, and is then waiting again.
C14_OneAtATime ==
    [][/\ (rx # <<>> /\ rx' = Tail(rx))
            => pc = "recv" /\ event_path = NoPath /\ received = triggered
       /\ (pc = "copy") <=> (received = triggered + 1)
       /\ received \in {triggered, triggered + 1}
       /\ (pc = "copy" /\ pc' # pc)
            => /\ copies' = copies + 1 /\ triggered' = triggered + 1
               /\ pc' = "recv" /\ received' = triggered']_vars

\* C14 witness: a copy is in progress while a further Write event waits in
\* the channel.
C14_Witness ==
    /\ pc = "copy" /\ received = triggered + 1
    /\ \E i \in 1..Len(rx) : rx[i].kind = "Write"

\* C15: destination_file_path is computed once, by the step that makes the
\* first copy, as the destination directory followed by the last component
\* of the source path, and never changes afterwards; every copy, first or
\* triggered, changes no file but the one at that path (the step that makes
\* the copy also logs its result, into the log file).
C15_OneDestination ==
    [][/\ (pc # "first_copy") => (destination_file_path' = destination_file_path)
       /\ (copies' = copies + 1)
            => /\ destination_file_path' =
                      destination_dir_path \o <<src_path[Len(src_path)]>>
               /\ \A f \in Files \ {LogFile} :
                      fs'[f] # fs[f] => f = Resolve(destination_file_path')
       /\ (copies = 0) <=> (destination_file_path = NoPath)]_vars

\* C15 witness: source docs/notes.txt and destination file-watcher-backup;
\* the first copy and a triggered copy have both written
\* file-watcher-backup/notes.txt and no other file but the source and the
\* log file differs from its initial content.
C15_Witness ==
    /\ pc = "recv" /\ firstCopyOk /\ triggered >= 1 /\ lastCopyOk
    /\ src_path = <<"docs", "notes.txt">>
    /\ destination_file_path = <<"file-watcher-backup", "notes.txt">>
    /\ writes >= 1
    /\ fs[<<"/", "home", "file-watcher-backup", "notes.txt">>] = writes
    /\ \A f \in DOMAIN fs :
          f \notin {SrcFile, LogFile, <<"/", "home", "file-watcher-backup", "notes.txt">>}
            => fs[f] = InitialFs[f]

\* C16: every triggered copy reads the watched source file, the one src_path
\* names, whatever path the Write event that triggered it carries; so a copy
\* that returns Ok to a destination other than the source, made while no
\* write to the source was landing, leaves the source's content there.
C16_ReadsSource ==
    [][(pc = "copy" /\ copies' = copies + 1)
        => /\ Resolve(CopyFrom(event_path)) = Resolve(src_path)
           /\ lastCopyOk' /\ DstFile # SrcFile /\ ~raced
                => fs'[DstFile] = fs[SrcFile]]_vars

\* C17: after any copy attempt the destination holds either exactly the
\* content the source had when the copy was made (the copy returned Ok) or
\* exactly what it held before the attempt (the copy returned Err).
C17_AllOrNothing ==
    [][(copies' = copies + 1)
        => IF lastCopyOk'
           THEN fs'[DstFile] = fs[SrcFile]
           ELSE fs'[DstFile] = fs[DstFile]]_vars

\* C18: in the watch loop the number of copy attempts is one, the first copy,
\* plus the number of Write events taken from the channel, less the one whose
\* copy is in progress; every Write event taken is followed by one attempt,
\* and an attempt that failed is followed by no other until the next Write
\* event is taken.
C18_OneAttemptPerWrite ==
    [][/\ (pc = "recv") => (copies = 1 + received /\ triggered = received)
       /\ (pc = "copy") => (copies = received /\ triggered = received - 1)
       /\ (pc = "copy" /\ copies' = copies + 1)
            => pc' = "recv" /\ copies' = 1 + received'
       /\ (InLoop /\ copies' # copies)
            => pc = "copy" /\ copies' = copies + 1 /\ received' = received
       /\ (pc = "recv" /\ received' = received) => (copies' = copies)]_vars

\* C18 witness: two Write events were taken, the copy for the first failed
\* and was not tried again, the copy for the second succeeded: three attempts.
C18_Witness ==
    /\ pc = "recv" /\ received = 2 /\ copies = 3
    /\ firstCopyOk /\ failures = 1 /\ lastCopyOk

\* The channel has lost its sending side and holds no event.
Drained == pc = "recv" /\ ~connected /\ rx = <<>>

\* C19 as stated: once the channel is disconnected the waiting loop gets
\* only receive errors, and so starts no further copy.
C19_DisconnectedNoCopy ==
    [][(pc = "recv" /\ ~connected) => (pc' # "copy")]_vars

\* C19 as amended: once the channel is disconnected and the events still
\* buffered in it have been received, the receive never blocks (the error
\* arm can always run), every step leaves the loop at the receive with the
\* channel disconnected and empty, the count of logged watch errors never
\* falls, no copy is made and the destination, when it is another file than
\* the source, keeps its content.
C19_DrainedOnlyErrors ==
    [][Drained
        => /\ ENABLED RecvError
           /\ pc' = "recv" /\ ~connected' /\ rx' = <<>>
           /\ exitCode' = "none"
           /\ watchErrors' >= watchErrors
           /\ copies' = copies /\ received' = received
           /\ DstFile # SrcFile => fs'[DstFile] = fs[DstFile]]_vars

\* C19 witness: disconnected and drained, watch errors logged, and the source
\* written since while the destination keeps the content of the last copy.
C19_Witness ==
    /\ Drained /\ watchErrors = MaxWatchErrors
    /\ firstCopyOk /\ lastCopyOk
    /\ writes >= 1 /\ fs[SrcFile] = writes
    /\ DstFile # SrcFile /\ fs[DstFile] # fs[SrcFile] /\ fs[DstFile] # NoFile

====
